---- MODULE Spec2Model ----
(***************************************************************************)
(* A model of parse_stars.py: the SIMBAD catalog parser that converts      *)
(* stars.txt into stars_catalog.json.                                      *)
(*                                                                         *)
(* Text is modelled as sequences of one-character strings, so that         *)
(* str.strip, str.split, str.replace, str.startswith, float() and int()    *)
(* are computed character by character as Python computes them.            *)
(*                                                                         *)
(* Numbers.  A Python float is modelled as a record                        *)
(*     [k |-> "fin", v |-> n]   a finite value, n in the field's unit       *)
(*     [k |-> "nan", v |-> 0]   NaN                                         *)
(*     [k |-> "inf", v |-> s]   s = 1: +infinity, s = -1: -infinity         *)
(* Parsed tokens are in units of 10^-5 (1.0 is Unit),                       *)
(* ra_deg/dec_deg in the output are in units of 10^-6 degree (the result   *)
(* of round(x, 6)) and the magnitude N in units of 10^-2 (round(x, 2)).    *)
(* Arithmetic is exact decimal arithmetic; round() rounds half to even.    *)
(* The texts the model reads are those on which exact arithmetic and the   *)
(* IEEE doubles of Python give the same comparisons and roundings.         *)
(***************************************************************************)
EXTENDS Integers, Sequences, FiniteSets, TLC

VARIABLES
    pc,         \* position of the running function
    lines,      \* main: the lines read from stars.txt (f.readlines())
    idx,        \* parse_stars_file: index of the next line of the for loop
    stars,      \* parse_stars_file / main: the list of star objects
    output,     \* main: the output structure written to stars_catalog.json
    coord_str,  \* parse_coordinates: its argument
    coords,     \* parse_coordinates: its result (or the exception raised)
    spectral_type, b_mag, v_mag,  \* get_star_color: its arguments
    color       \* get_star_color: its result

vars == <<pc, lines, idx, stars, output, coord_str, coords,
          spectral_type, b_mag, v_mag, color>>

-----------------------------------------------------------------------------
(* Python values *)

\* None, as distinct from every character sequence (also from the empty one)
None == <<"None">>

Fin(n) == [k |-> "fin", v |-> n]
NaN == [k |-> "nan", v |-> 0]
Inf(s) == [k |-> "inf", v |-> s]
\* the result of a float() or int() call that raised ValueError
ValueError == [k |-> "err", v |-> 0]

IsFin(x) == x.k = "fin"
IsNaN(x) == x.k = "nan"

\* x < y on floats: every comparison with NaN is False
FloatLt(x, y) ==
    CASE x.k = "nan" \/ y.k = "nan" -> FALSE
      [] x.k = "fin" /\ y.k = "fin" -> x.v < y.v
      [] x.k = "fin" /\ y.k = "inf" -> y.v = 1
      [] x.k = "inf" /\ y.k = "fin" -> x.v = -1
      [] OTHER -> x.v < y.v

FloatGt(x, y) == FloatLt(y, x)

\* x <= y on floats
FloatLe(x, y) ==
    CASE x.k = "nan" \/ y.k = "nan" -> FALSE
      [] OTHER -> ~FloatLt(y, x)

\* x - y on floats (same unit)
FloatSub(x, y) ==
    CASE x.k = "nan" \/ y.k = "nan" -> NaN
      [] x.k = "fin" /\ y.k = "fin" -> Fin(x.v - y.v)
      [] x.k = "inf" /\ y.k = "fin" -> x
      [] x.k = "fin" /\ y.k = "inf" -> Inf(-y.v)
      [] OTHER -> IF x.v = y.v THEN NaN ELSE x

\* round half to even of n/d, d > 0 (\div is the floor, % is non-negative)
RoundDiv(n, d) ==
    LET q == n \div d
        r == n % d
    IN  CASE 2 * r < d -> q
          [] 2 * r > d -> q + 1
          [] OTHER -> IF q % 2 = 0 THEN q ELSE q + 1

-----------------------------------------------------------------------------
(* str methods *)

Digits == <<"0", "1", "2", "3", "4", "5", "6", "7", "8", "9">>
IsDigit(c) == \E d \in 1..10 : Digits[d] = c
DigitVal(c) == (CHOOSE d \in 1..10 : Digits[d] = c) - 1

\* the characters str.strip() and str.split() treat as whitespace
IsSpace(c) == c \in {" ", "\t", "\n", "\r"}

LowerCase == <<"a", "b", "c", "d", "e", "f", "g", "h", "i", "j", "k", "l", "m",
               "n", "o", "p", "q", "r", "s", "t", "u", "v", "w", "x", "y", "z">>
UpperCase == <<"A", "B", "C", "D", "E", "F", "G", "H", "I", "J", "K", "L", "M",
               "N", "O", "P", "Q", "R", "S", "T", "U", "V", "W", "X", "Y", "Z">>

UpperChar(c) ==
    IF \E i \in 1..26 : LowerCase[i] = c
    THEN UpperCase[CHOOSE i \in 1..26 : LowerCase[i] = c]
    ELSE c

\* s.upper()
Upper(s) == [i \in 1..Len(s) |-> UpperChar(s[i])]

\* s[i:] with a 0-based Python index i >= 0
From(s, i) == SubSeq(s, i + 1, Len(s))

\* s.startswith(p)
StartsWith(s, p) == Len(s) >= Len(p) /\ SubSeq(s, 1, Len(p)) = p

\* p in s
Contains(s, p) == \E i \in 1..(Len(s) - Len(p) + 1) : SubSeq(s, i, i + Len(p) - 1) = p

RECURSIVE LStrip(_)
LStrip(s) == IF s # <<>> /\ IsSpace(Head(s)) THEN LStrip(Tail(s)) ELSE s

RECURSIVE RStrip(_)
RStrip(s) ==
    IF s # <<>> /\ IsSpace(s[Len(s)]) THEN RStrip(SubSeq(s, 1, Len(s) - 1)) ELSE s

\* s.strip()
Strip(s) == RStrip(LStrip(s))

\* s.split(sep) for a one-character separator: empty fields are kept
RECURSIVE SplitAt(_, _, _, _)
SplitAt(s, sep, cur, acc) ==
    IF s = <<>> THEN Append(acc, cur)
    ELSE IF Head(s) = sep THEN SplitAt(Tail(s), sep, <<>>, Append(acc, cur))
    ELSE SplitAt(Tail(s), sep, Append(cur, Head(s)), acc)

Split(s, sep) == SplitAt(s, sep, <<>>, <<>>)

\* s.split(): runs of whitespace separate, no empty token is produced
RECURSIVE SplitWsAt(_, _, _)
SplitWsAt(s, cur, acc) ==
    IF s = <<>> THEN (IF cur = <<>> THEN acc ELSE Append(acc, cur))
    ELSE IF IsSpace(Head(s))
         THEN SplitWsAt(Tail(s), <<>>, IF cur = <<>> THEN acc ELSE Append(acc, cur))
         ELSE SplitWsAt(Tail(s), Append(cur, Head(s)), acc)

SplitWs(s) == SplitWsAt(s, <<>>, <<>>)

\* s.replace(old, new): non-overlapping occurrences, left to right
RECURSIVE Replace(_, _, _)
Replace(s, old, new) ==
    IF s = <<>> THEN <<>>
    ELSE IF StartsWith(s, old) THEN new \o Replace(From(s, Len(old)), old, new)
    ELSE <<Head(s)>> \o Replace(Tail(s), old, new)

\* re.match(r'^\d+', s) is not None
MatchesLeadingDigits(s) == s # <<>> /\ IsDigit(s[1])

-----------------------------------------------------------------------------
(* float() and int() *)

\* a modelled float keeps 5 decimal digits after the point: the value 1.0
Unit == 10 ^ 5

AllDigits(s) == \A i \in 1..Len(s) : IsDigit(s[i])

\* the value of a string of digits
RECURSIVE DigitsValue(_)
DigitsValue(s) ==
    IF s = <<>> THEN 0 ELSE 10 * DigitsValue(SubSeq(s, 1, Len(s) - 1)) + DigitVal(s[Len(s)])

\* the value in units of 10^-n of the first n digits after the point
RECURSIVE FracValue(_, _)
FracValue(s, n) ==
    IF n = 0 THEN 0
    ELSE (IF s = <<>> THEN 0 ELSE DigitVal(Head(s))) * (10 ^ (n - 1))
         + FracValue(IF s = <<>> THEN <<>> ELSE Tail(s), n - 1)

\* the unsigned part of a float literal: digits, digits.digits, digits. , .digits,
\* nan, inf, infinity (any case); exponents and digit separators are not modelled
UnsignedFloat(s) ==
    LET dots == {i \in 1..Len(s) : s[i] = "."}
        u == Upper(s)
    IN  CASE u = <<"N", "A", "N">> -> NaN
          [] u = <<"I", "N", "F">> -> Inf(1)
          [] u = <<"I", "N", "F", "I", "N", "I", "T", "Y">> -> Inf(1)
          [] dots = {} /\ s # <<>> /\ AllDigits(s) -> Fin(DigitsValue(s) * Unit)
          [] Cardinality(dots) = 1 ->
                LET p == CHOOSE i \in dots : TRUE
                    ip == SubSeq(s, 1, p - 1)
                    fp == SubSeq(s, p + 1, Len(s))
                IN  IF AllDigits(ip) /\ AllDigits(fp) /\ (ip # <<>> \/ fp # <<>>)
                    THEN Fin(DigitsValue(ip) * Unit + FracValue(fp, 5))
                    ELSE ValueError
          [] OTHER -> ValueError

FloatNeg(x) ==
    CASE x.k = "fin" -> Fin(-x.v)
      [] x.k = "inf" -> Inf(-x.v)
      [] OTHER -> x

\* float(s) for a str s: surrounding whitespace is ignored, one sign is allowed
FloatOf(s) ==
    LET t == Strip(s)
    IN  CASE t = <<>> -> ValueError
          [] t[1] = "-" -> FloatNeg(UnsignedFloat(Tail(t)))
          [] t[1] = "+" -> UnsignedFloat(Tail(t))
          [] OTHER -> UnsignedFloat(t)

\* int(s) for a str s: surrounding whitespace is ignored, one sign is allowed
IntOf(s) ==
    LET t == Strip(s)
        body == IF t # <<>> /\ t[1] \in {"+", "-"} THEN Tail(t) ELSE t
    IN  IF body # <<>> /\ AllDigits(body)
        THEN Fin(IF t[1] = "-" THEN -DigitsValue(body) ELSE DigitsValue(body))
        ELSE ValueError

-----------------------------------------------------------------------------
(* parse_coordinates *)

\* An angle in degrees, exactly: q + r/d millionths of a degree, 0 <= r < d
Deg(q, r, d) == [k |-> "fin", q |-> q, r |-> r, d |-> d]
DegNaN == [k |-> "nan", q |-> 0, r |-> 0, d |-> 1]
DegInf(s) == [k |-> "inf", q |-> s, r |-> 0, d |-> 1]

\* Sexagesimal with the minutes not divided by 60
SexagesimalWholeMinutes(x, y, z, den) ==
    IF IsFin(x) /\ IsFin(y) /\ IsFin(z)
    THEN Deg((3600 \div den) * (x.v + y.v) + z.v \div den, z.v % den, den)
    ELSE DegNaN

\* (x + y/60 + z/3600) * (3600/den) / 10 in millionths, for floats x, y, z in
\* units of 10^-5: den = 24 gives hours to degrees (* 15), den = 360 gives degrees
Sexagesimal(x, y, z, den) ==
    LET infs == {t.v : t \in {u \in {x, y, z} : u.k = "inf"}}
    IN  CASE IsNaN(x) \/ IsNaN(y) \/ IsNaN(z) -> DegNaN
          [] infs = {1, -1} -> DegNaN
          [] infs # {} -> DegInf(CHOOSE s \in infs : TRUE)
          [] OTHER -> Deg((3600 \div den) * x.v + (60 * y.v + z.v) \div den,
                          (60 * y.v + z.v) % den, den)

\* sign * x for sign in {1, -1}
DegTimes(sign, x) ==
    CASE sign = 1 \/ x.k = "nan" -> x
      [] x.k = "inf" -> DegInf(-x.q)
      [] x.r = 0 -> Deg(-x.q, 0, x.d)
      [] OTHER -> Deg(-x.q - 1, x.d - x.r, x.d)

\* x < n for an angle x and a whole number of degrees n
DegLt(x, n) ==
    CASE x.k = "nan" -> FALSE
      [] x.k = "inf" -> x.q = -1
      [] OTHER -> x.q < n * 1000000

\* round(x, 6), in millionths of a degree
Round6(x) ==
    CASE x.k = "nan" -> NaN
      [] x.k = "inf" -> Inf(x.q)
      [] OTHER -> Fin(x.q + RoundDiv(x.r, x.d))

\* float(parts[i]) for i in 0, 1, 2, 4, 5 and float(parts[3][1:]) (0-based)
CoordNumber(parts, i) ==
    IF i = 3 THEN FloatOf(From(parts[4], 1)) ELSE FloatOf(parts[i + 1])

\* the statements of lines 16-24 run in order: the first that raises decides
parse_coordinates(s) ==
    LET parts == SplitWs(Strip(s))
        raises(i) == i >= Len(parts) \/ CoordNumber(parts, i) = ValueError
        bad == {i \in 0..5 : raises(i)}
    IN  IF bad # {}
        THEN LET i == CHOOSE j \in bad : \A l \in bad : j <= l
             IN  [exc |-> IF i >= Len(parts) THEN "IndexError" ELSE "ValueError",
                  ra_deg |-> DegNaN, dec_deg |-> DegNaN]
        ELSE LET dec_sign == IF parts[4][1] = "+" THEN 1 ELSE -1
             IN  [exc |-> "",
                  ra_deg |-> Sexagesimal(CoordNumber(parts, 0), CoordNumber(parts, 1),
                                         CoordNumber(parts, 2), 24),
                  dec_deg |-> DegTimes(dec_sign,
                                 Sexagesimal(CoordNumber(parts, 3), CoordNumber(parts, 4),
                                             CoordNumber(parts, 5), 360))]

-----------------------------------------------------------------------------
(* get_star_color *)

\* b_v = None
NoIndex == [k |-> "none", v |-> 0]

\* a value is truthy: neither None nor the empty string
Truthy(s) == s # None /\ s # <<>>

\* ColorIndex with a magnitude that is missing or no number read as 0
ColorIndexMissingAsZero(b, v) ==
    LET num(x) == IF x \in {None, <<>>, <<"~">>} \/ FloatOf(x) = ValueError
                  THEN Fin(0) ELSE FloatOf(x)
    IN  FloatSub(num(b), num(v))

\* lines 36-41: the B-V colour index, or None
ColorIndex(b, v) ==
    IF b # <<"~">> /\ v # <<"~">> /\ Truthy(b) /\ Truthy(v)
    THEN IF FloatOf(b) = ValueError \/ FloatOf(v) = ValueError
         THEN NoIndex
         ELSE FloatSub(FloatOf(b), FloatOf(v))
    ELSE NoIndex

\* b_v is not None and b_v < t, t in tenths
IndexBelow(b_v, t) == b_v # NoIndex /\ FloatLt(b_v, Fin(t * (Unit \div 10)))

\* b_v is not None and b_v > t, t in tenths
IndexAbove(b_v, t) == b_v # NoIndex /\ FloatGt(b_v, Fin(t * (Unit \div 10)))

\* {"r": r, "g": g, "b": b}, the channels in hundredths
RGB(r, g, b) == [r |-> r, g |-> g, b |-> b]

\* lines 43-83: the colour of the spectral class
ClassColor(spec, b_v) ==
    IF Truthy(spec)
    THEN LET spec_type == Upper(spec)
         IN  CASE StartsWith(spec_type, <<"O">>) \/ StartsWith(spec_type, <<"B">>) ->
                     (CASE IndexBelow(b_v, -2) -> RGB(70, 80, 100)
                        [] IndexBelow(b_v, 0) -> RGB(80, 80, 100)
                        [] OTHER -> RGB(90, 90, 100))
               [] StartsWith(spec_type, <<"A">>) -> RGB(100, 95, 90)
               [] StartsWith(spec_type, <<"F">>) -> RGB(100, 90, 70)
               [] StartsWith(spec_type, <<"G">>) -> RGB(100, 80, 50)
               [] StartsWith(spec_type, <<"K">>) -> RGB(100, 70, 40)
               [] StartsWith(spec_type, <<"M">>) ->
                     (IF IndexAbove(b_v, 15) THEN RGB(100, 50, 20) ELSE RGB(100, 60, 30))
               [] Contains(spec_type, <<"W", "R">>) \/ Contains(spec_type, <<"W", "C">>)
                     \/ Contains(spec_type, <<"W", "N">>) -> RGB(70, 80, 100)
               [] OTHER -> RGB(100, 95, 90)
    ELSE RGB(100, 95, 90)

\* lines 87-102: the colour of the band of the B-V index
BandColor(b_v) ==
    CASE IndexBelow(b_v, -3) -> RGB(60, 70, 100)
      [] IndexBelow(b_v, -1) -> RGB(80, 80, 100)
      [] IndexBelow(b_v, 2) -> RGB(90, 90, 100)
      [] IndexBelow(b_v, 5) -> RGB(100, 95, 90)
      [] IndexBelow(b_v, 8) -> RGB(100, 90, 70)
      [] IndexBelow(b_v, 12) -> RGB(100, 80, 50)
      [] IndexBelow(b_v, 16) -> RGB(100, 70, 40)
      [] OTHER -> RGB(100, 60, 30)

\* IndexColor with the index consulted only when no spectral class gave a colour
IndexColorUnclassified(b_v, base) ==
    IF b_v # NoIndex /\ base = RGB(100, 95, 90) THEN BandColor(b_v) ELSE base

\* lines 85-102: the colour of the B-V index when there is one
IndexColor(b_v, base) == IF b_v # NoIndex THEN BandColor(b_v) ELSE base

get_star_color(spec, b, v) ==
    LET b_v == ColorIndex(b, v)
    IN  IndexColor(b_v, ClassColor(spec, b_v))

-----------------------------------------------------------------------------
(* parse_stars_file: the body of the for loop *)

\* round(x, 2) of a float in units of 10^-5, in hundredths
Round2(x) == IF IsFin(x) THEN Fin(RoundDiv(x.v, Unit \div 100)) ELSE x

\* line 170: identifier.replace('*', '').replace('HD', 'HD ').strip()
NormalizeName(identifier) ==
    Strip(Replace(Replace(identifier, <<"*">>, <<>>), <<"H", "D">>, <<"H", "D", " ">>))

\* line 119
IsHeader(line) ==
    \/ line = <<>>
    \/ StartsWith(line, <<"C", ".", "D", ".", "S", ".">>)
    \/ StartsWith(line, <<"V", "m", "a", "g">>)
    \/ StartsWith(line, <<"N", "u", "m", "b", "e", "r">>)
    \/ StartsWith(line, <<"#">>)
    \/ StartsWith(line, <<"-", "-", "-", "-">>)

NoStar == [i |-> 0, n |-> <<>>, ra_deg |-> NaN, dec_deg |-> NaN, N |-> NaN,
           K |-> RGB(0, 0, 0)]

Skipped(why) == [kind |-> why, star |-> NoStar]

\* One iteration of the loop of lines 115-181 on one line of the file: the star
\* appended, or why the line was left out ("continue": one of the continue
\* statements, otherwise the exception that the except clause caught).
parse_line(raw) ==
    LET line == Strip(raw)
        parts == Split(line, "|")
        field(j) == Strip(parts[j + 1])
        mag_v == field(6)
        spec == IF Len(parts) > 9 THEN field(9) ELSE <<>>
        c == parse_coordinates(field(3))
        v_magnitude == FloatOf(mag_v)
    IN  CASE IsHeader(line) -> Skipped("continue")
          [] ~MatchesLeadingDigits(line) -> Skipped("continue")
          [] Len(parts) < 8 -> Skipped("continue")
          [] mag_v = <<"~">> \/ mag_v = <<>> -> Skipped("continue")
          [] c.exc # "" -> Skipped(c.exc)
          [] v_magnitude = ValueError -> Skipped("ValueError")
          [] FloatGt(v_magnitude, Fin(65 * (Unit \div 10))) -> Skipped("continue")
          [] DegLt(c.dec_deg, -10) -> Skipped("continue")
          [] IntOf(field(0)) = ValueError -> Skipped("ValueError")
          [] OTHER ->
                [kind |-> "star",
                 star |-> [i |-> IntOf(field(0)).v,
                           n |-> NormalizeName(field(1)),
                           ra_deg |-> Round6(c.ra_deg),
                           dec_deg |-> Round6(c.dec_deg),
                           N |-> Round2(v_magnitude),
                           K |-> get_star_color(spec, field(5), mag_v)]]

-----------------------------------------------------------------------------
(* The lines of stars.txt the model reads *)

\* the sample line of the catalog: 1|* alf And|**|00 08 23.25 +29 05 25.5|~|2.22|2.06|~|~|B8IVmnp|~\n
LineAlfAnd ==
    <<"1", "|", "*", " ", "a", "l", "f", " ", "A", "n", "d", "|", "*", "*", "|", "0", "0",
      " ", "0", "8", " ", "2", "3", ".", "2", "5", " ", "+", "2", "9", " ", "0", "5", " ",
      "2", "5", ".", "5", "|", "~", "|", "2", ".", "2", "2", "|", "2", ".", "0", "6", "|",
      "~", "|", "~", "|", "B", "8", "I", "V", "m", "n", "p", "|", "~", "\n">>

\* an HD identifier, the last instant of right ascension, magnitude 6.5: 2|HD 358|*|23 59 59.99999 +89 59 59.99999|~|~|6.5|~|~|K0\n
LineHd358 ==
    <<"2", "|", "H", "D", " ", "3", "5", "8", "|", "*", "|", "2", "3", " ", "5", "9", " ",
      "5", "9", ".", "9", "9", "9", "9", "9", " ", "+", "8", "9", " ", "5", "9", " ", "5",
      "9", ".", "9", "9", "9", "9", "9", "|", "~", "|", "~", "|", "6", ".", "5", "|", "~",
      "|", "~", "|", "K", "0", "\n">>

\* declination -10, a magnitude that rounds to 2.06, eight fields: 3|HD358|*|12 30 00 -10 00 00|~|~|2.064|~\n
LineHd358b ==
    <<"3", "|", "H", "D", "3", "5", "8", "|", "*", "|", "1", "2", " ", "3", "0", " ", "0",
      "0", " ", "-", "1", "0", " ", "0", "0", " ", "0", "0", "|", "~", "|", "~", "|", "2",
      ".", "0", "6", "4", "|", "~", "\n">>

\* a variable star designation: 4|V* R And|V*|00 24 01.9 +38 34 37|~|7.3|5.8|~|~|M\n
LineRAnd ==
    <<"4", "|", "V", "*", " ", "R", " ", "A", "n", "d", "|", "V", "*", "|", "0", "0", " ",
      "2", "4", " ", "0", "1", ".", "9", " ", "+", "3", "8", " ", "3", "4", " ", "3", "7",
      "|", "~", "|", "7", ".", "3", "|", "5", ".", "8", "|", "~", "|", "~", "|", "M", "\n">>

\* just south of declination -10: 5|* x|*|00 00 00 -10 00 00.00001|~|~|1|~\n
LineSouth ==
    <<"5", "|", "*", " ", "x", "|", "*", "|", "0", "0", " ", "0", "0", " ", "0", "0", " ",
      "-", "1", "0", " ", "0", "0", " ", "0", "0", ".", "0", "0", "0", "0", "1", "|", "~",
      "|", "~", "|", "1", "|", "~", "\n">>

\* just fainter than magnitude 6.5: 6|* f|*|0 0 0 +0 0 0|~|~|6.50001|~\n
LineFaint ==
    <<"6", "|", "*", " ", "f", "|", "*", "|", "0", " ", "0", " ", "0", " ", "+", "0", " ",
      "0", " ", "0", "|", "~", "|", "~", "|", "6", ".", "5", "0", "0", "0", "1", "|", "~",
      "\n">>

\* seven fields: 2|bad|**|garbage coords|1|2|3
LineShort ==
    <<"2", "|", "b", "a", "d", "|", "*", "*", "|", "g", "a", "r", "b", "a", "g", "e", " ",
      "c", "o", "o", "r", "d", "s", "|", "1", "|", "2", "|", "3">>

\* coordinates that are no numbers: 8|bad|**|garbage coords|~|~|3|~\n
LineGarbage ==
    <<"8", "|", "b", "a", "d", "|", "*", "*", "|", "g", "a", "r", "b", "a", "g", "e", " ",
      "c", "o", "o", "r", "d", "s", "|", "~", "|", "~", "|", "3", "|", "~", "\n">>

\* five coordinate tokens: 9|* n|*|1 2 3 +4 5|~|~|3|~\n
LineFiveTok ==
    <<"9", "|", "*", " ", "n", "|", "*", "|", "1", " ", "2", " ", "3", " ", "+", "4", " ",
      "5", "|", "~", "|", "~", "|", "3", "|", "~", "\n">>

\* declination degrees without a sign: 10|* u|*|00 53 04.1 61 07 26.2|~|~|3|~\n
LineNoSign ==
    <<"1", "0", "|", "*", " ", "u", "|", "*", "|", "0", "0", " ", "5", "3", " ", "0", "4",
      ".", "1", " ", "6", "1", " ", "0", "7", " ", "2", "6", ".", "2", "|", "~", "|", "~",
      "|", "3", "|", "~", "\n">>

\* a V magnitude that is no number: 11|* v|*|1 0 0 +1 0 0|~|~|abc|~\n
LineBadMag ==
    <<"1", "1", "|", "*", " ", "v", "|", "*", "|", "1", " ", "0", " ", "0", " ", "+", "1",
      " ", "0", " ", "0", "|", "~", "|", "~", "|", "a", "b", "c", "|", "~", "\n">>

\* an id that is no integer: 12a|* w|*|1 0 0 +1 0 0|~|~|3|~\n
LineBadId ==
    <<"1", "2", "a", "|", "*", " ", "w", "|", "*", "|", "1", " ", "0", " ", "0", " ", "+",
      "1", " ", "0", " ", "0", "|", "~", "|", "~", "|", "3", "|", "~", "\n">>

\* the V magnitude nan: 13|* q|*|1 0 0 +1 0 0|~|~|nan|~\n
LineNanMag ==
    <<"1", "3", "|", "*", " ", "q", "|", "*", "|", "1", " ", "0", " ", "0", " ", "+", "1",
      " ", "0", " ", "0", "|", "~", "|", "~", "|", "n", "a", "n", "|", "~", "\n">>

\* coordinates outside the sphere: 14|* r|*|25 00 00 +95 00 00|~|~|4|~\n
LineBeyond ==
    <<"1", "4", "|", "*", " ", "r", "|", "*", "|", "2", "5", " ", "0", "0", " ", "0", "0",
      " ", "+", "9", "5", " ", "0", "0", " ", "0", "0", "|", "~", "|", "~", "|", "4", "|",
      "~", "\n">>

\* no V magnitude: 15|* t|*|1 0 0 +1 0 0|~|~|~|~\n
LineNoMag ==
    <<"1", "5", "|", "*", " ", "t", "|", "*", "|", "1", " ", "0", " ", "0", " ", "+", "1",
      " ", "0", " ", "0", "|", "~", "|", "~", "|", "~", "|", "~", "\n">>

\* the header of the table: Number|identifier|typ|coord1|Mag U|Mag B|Mag V|Mag R\n
LineHeader ==
    <<"N", "u", "m", "b", "e", "r", "|", "i", "d", "e", "n", "t", "i", "f", "i", "e", "r",
      "|", "t", "y", "p", "|", "c", "o", "o", "r", "d", "1", "|", "M", "a", "g", " ", "U",
      "|", "M", "a", "g", " ", "B", "|", "M", "a", "g", " ", "V", "|", "M", "a", "g", " ",
      "R", "\n">>

\* an empty line: \n
LineBlank ==
    <<"\n">>

\* a bright star: 17|* z|*|1 0 0 +1 0 0|~|~|1|~\n
LineBright ==
    <<"1", "7", "|", "*", " ", "z", "|", "*", "|", "1", " ", "0", " ", "0", " ", "+", "1",
      " ", "0", " ", "0", "|", "~", "|", "~", "|", "1", "|", "~", "\n">>

Catalog ==
    {LineAlfAnd, LineHd358, LineHd358b, LineRAnd, LineSouth, LineFaint, LineShort,
     LineGarbage, LineFiveTok, LineNoSign, LineBadMag, LineBadId, LineNanMag, LineBeyond,
     LineNoMag, LineHeader, LineBlank, LineBright}

\* the lines that the files of several lines are made of
Core ==
    {LineAlfAnd, LineHd358, LineHd358b, LineBright, LineNanMag, LineNoSign, LineGarbage,
     LineFaint}

\* the longest file the model reads, in lines
MaxLines == 3

\* f.readlines(): every file of at most MaxLines lines of Core, and every file of
\* one line of the catalog
Files == UNION {[1..n -> Core] : n \in 0..MaxLines} \cup {<<l>> : l \in Catalog}

\* parse_line on every line of the catalog, computed once
Parsed == [l \in Catalog |-> parse_line(l)]

\* ProcessLine with a star left out when the list holds a star of the same id
ProcessLineOncePerId(acc, raw) ==
    IF Parsed[raw].kind = "star" /\ \A j \in 1..Len(acc) : acc[j].i # Parsed[raw].star.i
    THEN Append(acc, Parsed[raw].star) ELSE acc

\* lines 115-181 with the list the star is appended to: stars after the iteration
ProcessLine(acc, raw) ==
    IF Parsed[raw].kind = "star" THEN Append(acc, Parsed[raw].star) ELSE acc

\* parse_stars_file on the lines of the file: the list it returns
RECURSIVE parse_stars_file(_)
parse_stars_file(ls) ==
    IF ls = <<>> THEN <<>>
    ELSE ProcessLine(parse_stars_file(SubSeq(ls, 1, Len(ls) - 1)), ls[Len(ls)])

-----------------------------------------------------------------------------
(* main: stars.sort(key=lambda x: x['N']) *)

\* list.sort of CPython on a list shorter than 64 elements (one run, extended by
\* binary insertion), with the key comparison k(x) < k(y) = FloatLt(x.N, y.N).
KeyLt(x, y) == FloatLt(x.N, y.N)

\* count_run: the length of the run that starts the list
RECURSIVE RunLength(_, _, _)
RunLength(a, n, descending) ==
    IF n >= Len(a) THEN n
    ELSE IF descending = KeyLt(a[n + 1], a[n]) THEN RunLength(a, n + 1, descending)
    ELSE n

Reverse(a) == [i \in 1..Len(a) |-> a[Len(a) + 1 - i]]

\* binarysort: where the pivot goes in the sorted prefix a[lo+1..hi] (0-based l, r)
RECURSIVE InsertionPoint(_, _, _, _)
InsertionPoint(a, pivot, l, r) ==
    IF l >= r THEN l
    ELSE LET p == l + ((r - l) \div 2)
         IN  IF KeyLt(pivot, a[p + 1]) THEN InsertionPoint(a, pivot, l, p)
             ELSE InsertionPoint(a, pivot, p + 1, r)

\* binarysort: a[1..start] is sorted, the elements after it are inserted in turn
RECURSIVE BinarySort(_, _)
BinarySort(a, start) ==
    IF start >= Len(a) THEN a
    ELSE LET pivot == a[start + 1]
             l == InsertionPoint(a, pivot, 0, start)
         IN  BinarySort(SubSeq(a, 1, l) \o <<pivot>> \o SubSeq(a, l + 1, start)
                            \o SubSeq(a, start + 2, Len(a)),
                        start + 1)

SortByMagnitude(a) ==
    IF Len(a) < 2 THEN a
    ELSE LET descending == KeyLt(a[2], a[1])
             n == RunLength(a, 2, descending)
             run == IF descending THEN Reverse(SubSeq(a, 1, n)) ELSE SubSeq(a, 1, n)
         IN  BinarySort(run \o SubSeq(a, n + 1, Len(a)), n)

\* min(star['N'] for star in stars) on a non-empty list: the first item, replaced
\* by each later item that compares less than it
RECURSIVE MinMagnitude(_)
MinMagnitude(a) ==
    IF Len(a) = 1 THEN a[1].N
    ELSE LET m == MinMagnitude(SubSeq(a, 1, Len(a) - 1))
         IN  IF FloatLt(a[Len(a)].N, m) THEN a[Len(a)].N ELSE m

\* max(star['N'] for star in stars) on a non-empty list
RECURSIVE MaxMagnitude(_)
MaxMagnitude(a) ==
    IF Len(a) = 1 THEN a[1].N
    ELSE LET m == MaxMagnitude(SubSeq(a, 1, Len(a) - 1))
         IN  IF FloatGt(a[Len(a)].N, m) THEN a[Len(a)].N ELSE m

-----------------------------------------------------------------------------
(* main and parse_stars_file as a state machine *)

NoOutput ==
    [description |-> "", total_stars |-> 0, magnitude_range |-> [min |-> NaN, max |-> NaN],
     stars |-> <<>>]

NoCoords == [exc |-> "", ra_deg |-> DegNaN, dec_deg |-> DegNaN]
NoColor == RGB(0, 0, 0)

\* the variables of the functions that are not running
Idle == /\ coord_str = None /\ coords = NoCoords
        /\ spectral_type = None /\ b_mag = None /\ v_mag = None /\ color = NoColor

Init ==
    /\ pc = "loop"
    /\ lines \in Files
    /\ idx = 1
    /\ stars = <<>>
    /\ output = NoOutput
    /\ Idle

\* lines 115-181: one iteration of the for loop
LoopStep ==
    /\ pc = "loop"
    /\ idx <= Len(lines)
    /\ stars' = ProcessLine(stars, lines[idx])
    /\ idx' = idx + 1
    /\ UNCHANGED <<pc, lines, output, coord_str, coords, spectral_type, b_mag, v_mag, color>>

\* line 183: the loop is over, parse_stars_file returns stars to main
Return ==
    /\ pc = "loop"
    /\ idx > Len(lines)
    /\ pc' = "parsed"
    /\ UNCHANGED <<lines, idx, stars, output, coord_str, coords, spectral_type, b_mag,
                   v_mag, color>>

\* line 194
Sort ==
    /\ pc = "parsed"
    /\ stars' = SortByMagnitude(stars)
    /\ pc' = "sorted"
    /\ UNCHANGED <<lines, idx, output, coord_str, coords, spectral_type, b_mag, v_mag, color>>

\* lines 197-209: the output structure is built and written; min() and max() raise
\* ValueError on an empty list, which nothing catches
BuildOutput ==
    /\ pc = "sorted"
    /\ IF stars = <<>>
       THEN /\ pc' = "ValueError"
            /\ output' = output
       ELSE /\ pc' = "written"
            /\ output' = [description |-> "Star catalog parsed from SIMBAD data",
                          total_stars |-> Len(stars),
                          magnitude_range |-> [min |-> MinMagnitude(stars),
                                               max |-> MaxMagnitude(stars)],
                          stars |-> stars]
    /\ UNCHANGED <<lines, idx, stars, coord_str, coords, spectral_type, b_mag, v_mag, color>>

\* lines 215-222: the magnitude distribution; int(star['N']) raises ValueError on
\* NaN and OverflowError on an infinity
Statistics ==
    /\ pc = "written"
    /\ pc' = IF \E j \in 1..Len(stars) : ~IsFin(stars[j].N) THEN "ValueError" ELSE "done"
    /\ UNCHANGED <<lines, idx, stars, output, coord_str, coords, spectral_type, b_mag,
                   v_mag, color>>

Next == LoopStep \/ Return \/ Sort \/ BuildOutput \/ Statistics

Spec == Init /\ [][Next]_vars

-----------------------------------------------------------------------------
(* get_star_color and parse_coordinates called on their own *)

\* get_star_color: the spectral types the model calls it with
SpectralTypes ==
    {None, <<>>, <<"B", "8", "I", "V", "m", "n", "p">>, <<"o", "9">>, <<"A", "0">>,
     <<"F", "5">>, <<"G", "2", "V">>, <<"K", "0">>, <<"M", "1">>, <<"W", "N", "5">>,
     <<"w", "c", "7">>, <<"s", "d", "B">>}

\* the B magnitudes: with V = 1.0 they reach every band of the B-V index
BMagnitudes ==
    {None, <<>>, <<"~">>, <<"a", "b", "c">>, <<"n", "a", "n">>, <<"0", ".", "6">>,
     <<"0", ".", "7", "5">>, <<"0", ".", "8", "5">>, <<"0", ".", "9">>, <<"1", ".", "0">>,
     <<"1", ".", "2", "5">>, <<"1", ".", "5">>, <<"1", ".", "8">>, <<"2", ".", "2">>,
     <<"2", ".", "5", "5">>, <<"2", ".", "6">>}

\* the V magnitudes
VMagnitudes ==
    {None, <<>>, <<"~">>, <<"x">>, <<"1", ".", "0">>, <<"n", "a", "n">>}

\* parse_coordinates: the right ascension part of its argument
RightAscensions ==
    {<<"0", "0", " ", "5", "3", " ", "0", "4", ".", "1">>,
     <<"2", "3", " ", "5", "9", " ", "5", "9", ".", "9", "9", "9", "9", "9">>,
     <<"1", " ", "2">>, <<"x", " ", "0", " ", "0">>, <<"n", "a", "n", " ", "0", " ", "0">>,
     <<"2", "5", " ", "0", " ", "0">>, <<>>}

\* the declination part of its argument
Declinations ==
    {<<"+", "6", "1", " ", "0", "7", " ", "2", "6", ".", "2">>,
     <<"6", "1", " ", "0", "7", " ", "2", "6", ".", "2">>,
     <<"-", "1", "0", " ", "0", "0", " ", "0", "0">>, <<"+", "4", " ", "5">>,
     <<"x", "5", " ", "0", " ", "0">>, <<"+", " ", "4", " ", "5">>,
     <<"+", "i", "n", "f", " ", "0", " ", "0">>, <<"+", "1", " ", "x", " ", "0">>, <<>>}

CoordTexts == {r \o <<" ">> \o d : r \in RightAscensions, d \in Declinations}

\* the variables of main and parse_stars_file when they are not running
NoPipeline == lines = <<>> /\ idx = 1 /\ stars = <<>> /\ output = NoOutput

InitColor ==
    /\ pc = "color"
    /\ spectral_type \in SpectralTypes
    /\ b_mag \in BMagnitudes
    /\ v_mag \in VMagnitudes
    /\ color = NoColor
    /\ coord_str = None /\ coords = NoCoords
    /\ NoPipeline

\* lines 32-104
Classify ==
    /\ pc = "color"
    /\ color' = get_star_color(spectral_type, b_mag, v_mag)
    /\ pc' = "colored"
    /\ UNCHANGED <<lines, idx, stars, output, coord_str, coords, spectral_type, b_mag, v_mag>>

SpecColor == InitColor /\ [][Classify]_vars

InitCoord ==
    /\ pc = "convert"
    /\ coord_str \in CoordTexts
    /\ coords = NoCoords
    /\ spectral_type = None /\ b_mag = None /\ v_mag = None /\ color = NoColor
    /\ NoPipeline

\* lines 10-30
Convert ==
    /\ pc = "convert"
    /\ coords' = parse_coordinates(coord_str)
    /\ pc' = "converted"
    /\ UNCHANGED <<lines, idx, stars, output, coord_str, spectral_type, b_mag, v_mag, color>>

SpecCoord == InitCoord /\ [][Convert]_vars

-----------------------------------------------------------------------------
(* The claims *)

\* the sort of line 194 has run
AfterSort == pc \in {"sorted", "written", "done", "ValueError"}

\* field j (0-based) of a line, as lines 116, 128 and 135-144 extract it
FieldOf(raw, j) ==
    LET parts == Split(Strip(raw), "|")
    IN  IF j < Len(parts) THEN Strip(parts[j + 1]) ELSE <<>>

\* the file without its line i
WithoutLine(ls, i) == SubSeq(ls, 1, i - 1) \o SubSeq(ls, i + 1, Len(ls))

\* the iteration of the loop that the next step runs appends a star
Appends == pc = "loop" /\ idx <= Len(lines) /\ Len(stars') = Len(stars) + 1

(* ---- C1 ---- *)

\* the V magnitude of the line is above 6.5 or its declination is below -10
FaintOrSouthern(raw) ==
    \/ /\ FloatOf(FieldOf(raw, 6)) # ValueError
       /\ FloatGt(FloatOf(FieldOf(raw, 6)), Fin(65 * (Unit \div 10)))
    \/ /\ parse_coordinates(FieldOf(raw, 3)).exc = ""
       /\ DegLt(parse_coordinates(FieldOf(raw, 3)).dec_deg, -10)

\* C1: every star of the list has magnitude <= 6.5 and dec_deg >= -10, and a line
\* whose V magnitude is > 6.5 or whose declination is < -10 contributes no star.
C1_FilteringLaw ==
    /\ \A j \in 1..Len(stars) :
          /\ FloatLe(stars[j].N, Fin(650))
          /\ FloatLe(Fin(-10000000), stars[j].dec_deg)
    /\ pc = "parsed" =>
          \A i \in 1..Len(lines) :
             FaintOrSouthern(lines[i]) => stars = parse_stars_file(WithoutLine(lines, i))

(* ---- C2 ---- *)

\* the stars of magnitude m, in the order of the list
OfMagnitude(a, m) ==
    LET same(x) == x.N = m
    IN  SelectSeq(a, same)

\* C2: after the sort the list is non-decreasing in N, and the stars of one
\* magnitude are in the order of their lines in the file.
C2_SortLaw ==
    AfterSort =>
       /\ \A i, j \in 1..Len(stars) : i < j => FloatLe(stars[i].N, stars[j].N)
       /\ \A j \in 1..Len(stars) :
             OfMagnitude(stars, stars[j].N) = OfMagnitude(parse_stars_file(lines), stars[j].N)

(* ---- C3 ---- *)

\* b_mag or v_mag is absent, empty, the sentinel or no number: no B-V index
IndexUndefined(b, v) ==
    \/ b \in {None, <<>>, <<"~">>}
    \/ v \in {None, <<>>, <<"~">>}
    \/ FloatOf(b) = ValueError
    \/ FloatOf(v) = ValueError

\* the colour of the band of the thresholds -0.3, -0.1, 0.2, 0.5, 0.8, 1.2, 1.6
\* that holds x (in units of 10^-5)
ThresholdBand(x) ==
    LET below(t) == FloatLt(x, Fin(t * 10000))
    IN  CASE below(-3) -> RGB(60, 70, 100)
          [] below(-1) -> RGB(80, 80, 100)
          [] below(2) -> RGB(90, 90, 100)
          [] below(5) -> RGB(100, 95, 90)
          [] below(8) -> RGB(100, 90, 70)
          [] below(12) -> RGB(100, 80, 50)
          [] below(16) -> RGB(100, 70, 40)
          [] OTHER -> RGB(100, 60, 30)

\* C3: with a B-V index defined, the colour returned is the one returned for every
\* other spectral type, and (the index being a number) it is the colour of the
\* threshold band that holds B-V.
C3_IndexOverride ==
    (pc = "colored" /\ ~IndexUndefined(b_mag, v_mag)) =>
       /\ \A s \in SpectralTypes : get_star_color(s, b_mag, v_mag) = color
       /\ ~IsNaN(FloatSub(FloatOf(b_mag), FloatOf(v_mag))) =>
             color = ThresholdBand(FloatSub(FloatOf(b_mag), FloatOf(v_mag)))

\* an M star whose B-V index of -0.4 gave it the bluest band
C3_Witness ==
    /\ pc = "colored"
    /\ spectral_type = <<"M", "1">>
    /\ b_mag = <<"0", ".", "6">>
    /\ v_mag = <<"1", ".", "0">>
    /\ color = RGB(60, 70, 100)

(* ---- C4 ---- *)

\* the coordinate text has fewer than 6 tokens, a declination without sign, or a
\* token that is no number
MalformedCoordinates(text) ==
    LET parts == SplitWs(text)
    IN  \/ Len(parts) < 6
        \/ parts[4][1] \notin {"+", "-"}
        \/ \E i \in {1, 2, 3, 5, 6} : FloatOf(parts[i]) = ValueError
        \/ FloatOf(Tail(parts[4])) = ValueError

\* a data line with fewer than 8 fields, malformed coordinates, a V magnitude
\* that is no number or an id that is no integer
MalformedLine(raw) ==
    /\ MatchesLeadingDigits(Strip(raw))
    /\ \/ Len(Split(Strip(raw), "|")) < 8
       \/ MalformedCoordinates(FieldOf(raw, 3))
       \/ FloatOf(FieldOf(raw, 6)) = ValueError
       \/ IntOf(FieldOf(raw, 0)) = ValueError

\* C4: a malformed line contributes no star and the loop runs to its end: the
\* list is the one the file without that line gives.
C4_FailureIsolation ==
    pc = "parsed" =>
       \A i \in 1..Len(lines) :
          MalformedLine(lines[i]) => stars = parse_stars_file(WithoutLine(lines, i))

(* ---- C5 ---- *)

\* C5: when no line gave a star, main ends with an output of total_stars = 0
\* and not with the error of min() on an empty list.
C5_EmptyResult ==
    (stars = <<>> /\ pc \notin {"loop", "parsed", "sorted"}) =>
       (pc \in {"written", "done"} /\ output.total_stars = 0)

(* ---- C6 ---- *)

\* C6: parse_coordinates raises on a coordinate text with fewer than 6 tokens,
\* with a token that is no number, or whose fourth token does not begin with
\* '+' or '-'.
C6_SignRequired ==
    (pc = "converted" /\ MalformedCoordinates(coord_str)) => coords.exc # ""

(* ---- C7 ---- *)

\* ra_deg in [0, 360) and dec_deg in [-90, 90], in millionths of a degree
InSphere(star) ==
    /\ IsFin(star.ra_deg) /\ 0 <= star.ra_deg.v /\ star.ra_deg.v < 360000000
    /\ IsFin(star.dec_deg) /\ -90000000 <= star.dec_deg.v /\ star.dec_deg.v <= 90000000

\* ra_deg in [0, 360] and dec_deg in [-90, 90]
InClosedSphere(star) ==
    /\ IsFin(star.ra_deg) /\ 0 <= star.ra_deg.v /\ star.ra_deg.v <= 360000000
    /\ IsFin(star.dec_deg) /\ -90000000 <= star.dec_deg.v /\ star.dec_deg.v <= 90000000

\* a decimal numeral below 60
Sixtieth(tok) == IsFin(UnsignedFloat(tok)) /\ UnsignedFloat(tok).v < 60 * Unit

\* a whole number of at most max
Whole(tok, max) == tok # <<>> /\ AllDigits(tok) /\ DigitsValue(tok) <= max

\* six tokens h m s [+-]d m s with h <= 23, m <= 59, s < 60 and a declination of
\* at most 90 degrees
ValidSexagesimal(text) ==
    LET parts == SplitWs(text)
    IN  /\ Len(parts) = 6
        /\ Whole(parts[1], 23) /\ Whole(parts[2], 59) /\ Sixtieth(parts[3])
        /\ parts[4][1] \in {"+", "-"}
        /\ Whole(parts[5], 59) /\ Sixtieth(parts[6])
        /\ \/ Whole(Tail(parts[4]), 89)
           \/ /\ Whole(Tail(parts[4]), 90)
              /\ DigitsValue(parts[5]) = 0
              /\ UnsignedFloat(parts[6]).v = 0

\* C7 as claimed: every star of the list has ra_deg in [0, 360) and dec_deg in
\* [-90, 90].
C7_CoordinateRange == \A j \in 1..Len(stars) : InSphere(stars[j])

\* C7 as amended: a star appended for a line whose coordinates are valid
\* sexagesimal text has ra_deg in [0, 360] and dec_deg in [-90, 90].
C7_ValidCoordinateRange ==
    [][(Appends /\ ValidSexagesimal(FieldOf(lines[idx], 3)))
          => InClosedSphere(stars'[Len(stars')])]_vars

\* the line of right ascension 23 59 59.99999 gave a star of ra_deg 360.0
C7_Witness ==
    /\ pc = "parsed"
    /\ lines = <<LineHd358>>
    /\ Len(stars) = 1
    /\ stars[1].ra_deg = Fin(360000000)
    /\ stars[1].dec_deg = Fin(90000000)

(* ---- C8 ---- *)

\* the colour of the spectral class alone
ClassBaseline(spec) ==
    LET u == IF spec = None THEN <<>> ELSE Upper(spec)
        first == IF u = <<>> THEN "" ELSE u[1]
    IN  CASE first \in {"O", "B"} -> RGB(90, 90, 100)
          [] first = "A" -> RGB(100, 95, 90)
          [] first = "F" -> RGB(100, 90, 70)
          [] first = "G" -> RGB(100, 80, 50)
          [] first = "K" -> RGB(100, 70, 40)
          [] first = "M" -> RGB(100, 60, 30)
          [] \E i \in 1..(Len(u) - 1) : u[i] = "W" /\ u[i + 1] \in {"R", "C", "N"} ->
                RGB(70, 80, 100)
          [] OTHER -> RGB(100, 95, 90)

\* the spectral class is O or B
BlueWhiteClass(spec) == spec # None /\ spec # <<>> /\ UpperChar(spec[1]) \in {"O", "B"}

\* C8 as claimed: without a B-V index the colour is the baseline of the spectral
\* class, and never the colour of the band of B-V = 0.
C8_UndefinedIsNotZero ==
    (pc = "colored" /\ IndexUndefined(b_mag, v_mag)) =>
       /\ color = ClassBaseline(spectral_type)
       /\ color # ThresholdBand(Fin(0))

\* C8 as amended: without a B-V index the colour is the baseline of the spectral
\* class; it is the colour of the band of B-V = 0 only for the classes O and B,
\* whose baseline is that colour.
C8_UndefinedIsBaseline ==
    (pc = "colored" /\ IndexUndefined(b_mag, v_mag)) =>
       /\ color = ClassBaseline(spectral_type)
       /\ color = ThresholdBand(Fin(0)) <=> BlueWhiteClass(spectral_type)

\* an A star without B magnitude: near-white, not the blue-white of B-V = 0
C8_Witness ==
    /\ pc = "colored"
    /\ spectral_type = <<"A", "0">>
    /\ b_mag = <<"~">>
    /\ v_mag = <<"1", ".", "0">>
    /\ color = RGB(100, 95, 90)

(* ---- C9 ---- *)

\* the identifier without its leading '*', with HD and the number that follows
\* it separated by one space, trimmed
NormalizedIdentifier(identifier) ==
    LET t == Strip(identifier)
        u == Strip(IF StartsWith(t, <<"*">>) THEN Tail(t) ELSE t)
    IN  IF StartsWith(u, <<"H", "D">>) /\ Len(u) > 2 /\ IsDigit(u[3])
        THEN <<"H", "D", " ">> \o From(u, 2)
        ELSE u

\* C9: the name of a star is the identifier of its line with only the leading
\* '*' stripped, HD separated from its number by exactly one space, and no
\* surrounding whitespace.
C9_NameNormalization ==
    [][Appends => stars'[Len(stars')].n = NormalizedIdentifier(FieldOf(lines[idx], 1))]_vars

(* ---- C10 ---- *)

\* the lists that the lines give one by one, concatenated
RECURSIVE LineByLine(_)
LineByLine(ls) ==
    IF ls = <<>> THEN <<>>
    ELSE LineByLine(SubSeq(ls, 1, Len(ls) - 1)) \o parse_stars_file(<<ls[Len(ls)]>>)

\* C10: the sorted list is the sort of what the lines give one by one, and of
\* what any three contiguous parts of the file give, concatenated in order.
C10_Independence ==
    pc = "sorted" =>
       /\ stars = SortByMagnitude(LineByLine(lines))
       /\ \A k1 \in 0..Len(lines) : \A k2 \in k1..Len(lines) :
             stars = SortByMagnitude(parse_stars_file(SubSeq(lines, 1, k1))
                                     \o parse_stars_file(SubSeq(lines, k1 + 1, k2))
                                     \o parse_stars_file(SubSeq(lines, k2 + 1, Len(lines))))

\* a file of three lines, the same line twice among them, that the sort reordered
C10_Witness ==
    /\ pc = "sorted"
    /\ Len(lines) = 3
    /\ lines[1] = lines[3]
    /\ Len(stars) = 3
    /\ stars # parse_stars_file(lines)

====
